---------------------------- MODULE Spec2Model ----------------------------
(***************************************************************************)
(* Verification model of electronicparsers/cp2k/parser.py.                 *)
(*                                                                         *)
(* Part 1: resolve_unit (lines 85-161), the unit-expression resolver.      *)
(* Strings are sequences of one-character strings, so that lower(),        *)
(* replace(), count(), find(), rfind(), split() and float() are computed   *)
(* character by character as CPython computes them.  Values returned by    *)
(* the resolver are records:                                               *)
(*    [k |-> "none"]           Python None                                 *)
(*    [k |-> "str", s |-> s]   a Python str                                *)
(*    [k |-> "q", ...]         a number or a pint unit/quantity            *)
(*    [k |-> "complex"]        a complex number (negative base, fractional *)
(*                             exponent)                                   *)
(*    [k |-> "raise", e |-> e] the call does not return: exception e       *)
(*                                                                         *)
(* Part 2: the frame correlator of CP2KParser (get_trajectory,             *)
(* get_velocities, get_lattice_vectors).                                   *)
(***************************************************************************)
EXTENDS Integers, Sequences, FiniteSets, TLC

(***************************************************************************)
(* Bounds of the model.                                                    *)
(***************************************************************************)
\* longest free token sequence given to resolve_unit
MaxTok == 3
\* depth at which the interpreter gives up a recursion (RecursionError);
\* CPython's default is 1000, the expressions of the model need at most 6
RecursionLimit == 8
\* largest print frequency a document configures
MaxFreq == 2
\* largest frame a lookup asks for; the MD run has this many steps
MaxFrame == 3
\* number of records in a side file
MaxRec == 3
\* documents parsed one after the other by one CP2KParser instance
MaxDocs == 2
\* optimization_step and md_step blocks of an output
MaxSteps == 3
\* calculations handed to parse_scc one after the other
MaxCalc == 3
\* SCF iterations of one calculation
MaxIter == 2

(***************************************************************************)
(* Rational numbers <<n, d>> with d > 0 and gcd(n, d) = 1.                 *)
(***************************************************************************)
RECURSIVE GCD(_, _)
GCD(a, b) == IF b = 0 THEN a ELSE GCD(b, a % b)

Abs(n) == IF n < 0 THEN -n ELSE n

RNorm(n, d) ==
    LET g == GCD(Abs(n), Abs(d))
        s == IF d < 0 THEN -1 ELSE 1
    IN  <<(s * n) \div g, (s * d) \div g>>

RAdd(a, b) == RNorm(a[1] * b[2] + b[1] * a[2], a[2] * b[2])
RMul(a, b) == RNorm(a[1] * b[1], a[2] * b[2])
RZero == <<0, 1>>
ROne == <<1, 1>>

(***************************************************************************)
(* Exponent maps: generator -> non-zero rational exponent.  A number or a  *)
(* quantity is sign * PROD prime^num[prime] * PROD unit^dim[unit].         *)
(***************************************************************************)
EmptyMap == [x \in {} |-> RZero]

EGet(f, x) == IF x \in DOMAIN f THEN f[x] ELSE RZero

EPrune(f) == [x \in {y \in DOMAIN f : f[y] # RZero} |-> f[x]]

EAdd(f, g) == EPrune([x \in DOMAIN f \cup DOMAIN g |-> RAdd(EGet(f, x), EGet(g, x))])

EScale(f, r) == EPrune([x \in DOMAIN f |-> RMul(f[x], r)])


(***************************************************************************)
(* Values.                                                                 *)
(***************************************************************************)
None == [k |-> "none"]
Str(s) == [k |-> "str", s |-> s]
Raise(e) == [k |-> "raise", e |-> e]
Complex == [k |-> "complex"]
\* a real number with an irrational exponent, which the exponent maps cannot hold
Inexact == [k |-> "inexact"]
Q(sign, num, dim) == [k |-> "q", sign |-> sign, num |-> num, dim |-> dim]

IsRaise(v) == v.k = "raise"

One == Q(1, EmptyMap, EmptyMap)
BaseUnit(u) == Q(1, EmptyMap, [x \in {u} |-> ROne])

\* the prime factorisation of n >= 1, trying the divisors p, p+1, ...
RECURSIVE Factor(_, _)
Factor(n, p) ==
    IF n = 1 THEN EmptyMap
    ELSE IF p * p > n THEN [x \in {n} |-> ROne]
    ELSE IF n % p = 0 THEN EAdd([x \in {p} |-> ROne], Factor(n \div p, p))
    ELSE Factor(n, p + 1)

\* the float of a non-zero integer literal
NumVal(n) == Q(IF n < 0 THEN -1 ELSE 1, Factor(Abs(n), 2), EmptyMap)

IsInt(r) == r[2] = 1

RECURSIVE IPow(_, _)
IPow(b, e) == IF e = 0 THEN 1 ELSE b * IPow(b, e - 1)

\* PROD p^f[p] of a map with integer exponents, as a rational
RECURSIVE MapVal(_)
MapVal(f) ==
    IF DOMAIN f = {} THEN ROne
    ELSE LET p == CHOOSE x \in DOMAIN f : TRUE
             e == f[p][1]
             rest == MapVal([x \in DOMAIN f \ {p} |-> f[x]])
         IN  IF e >= 0 THEN RMul(<<IPow(p, e), 1>>, rest)
             ELSE RMul(<<1, IPow(p, -e)>>, rest)

(***************************************************************************)
(* Python's *, / and ** on the values (parser.py:128, 136, 144, 152, 157). *)
(* None supports no arithmetic and a str none with a number or a unit      *)
(* (TypeError); an exception in an operand propagates, left operand first. *)
(* Numbers and pint units are multiplied exactly, as real quantities.      *)
(***************************************************************************)
Arith(a, b, onQ) ==
    IF IsRaise(a) THEN a
    ELSE IF IsRaise(b) THEN b
    ELSE IF a.k \in {"none", "str"} \/ b.k \in {"none", "str"} THEN Raise("TypeError")
    ELSE IF a.k = "complex" \/ b.k = "complex" THEN Complex
    ELSE IF a.k = "inexact" \/ b.k = "inexact" THEN Inexact
    ELSE onQ

VMul(a, b) ==
    Arith(a, b, IF a.k = "q" /\ b.k = "q"
                THEN Q(a.sign * b.sign, EAdd(a.num, b.num), EAdd(a.dim, b.dim))
                ELSE None)

VInv(b) ==
    IF b.k = "q" THEN Q(b.sign, EScale(b.num, <<-1, 1>>), EScale(b.dim, <<-1, 1>>))
    ELSE b

VDiv(a, b) == VMul(a, VInv(b))

\* a ** b: the exponent must be a plain number (pint raises for an exponent
\* that carries a unit); a negative base with a fractional exponent is complex
VPow(a, b) ==
    Arith(a, b,
        IF a.k = "q" /\ b.k = "q"
        THEN IF b.dim # EmptyMap THEN Raise("DimensionalityError")
             ELSE IF \E p \in DOMAIN b.num : ~IsInt(b.num[p]) THEN Inexact
             ELSE LET m == MapVal(b.num)
                      e == <<b.sign * m[1], m[2]>>
                  IN  IF a.sign = -1 /\ ~IsInt(e) THEN Complex
                      ELSE Q(IF a.sign = -1 /\ e[1] % 2 = 1 THEN -1 ELSE 1,
                             EScale(a.num, e), EScale(a.dim, e))
        ELSE None)


(***************************************************************************)
(* Strings: sequences of one-character strings, indexed from 0 in Python   *)
(* and from 1 here.                                                        *)
(***************************************************************************)
UpperCase == <<"A","B","C","D","E","F","G","H","I","J","K","L","M",
               "N","O","P","Q","R","S","T","U","V","W","X","Y","Z">>
LowerCase == <<"a","b","c","d","e","f","g","h","i","j","k","l","m",
               "n","o","p","q","r","s","t","u","v","w","x","y","z">>
Digits == <<"0","1","2","3","4","5","6","7","8","9">>

\* str.lower() of one character
Lower(c) ==
    IF \E i \in 1..26 : UpperCase[i] = c
    THEN LowerCase[CHOOSE i \in 1..26 : UpperCase[i] = c]
    ELSE c

\* unit_str.lower().replace(" ", "")
Normalize(s) == SelectSeq([i \in 1..Len(s) |-> Lower(s[i])], LAMBDA c : c # " ")

\* str.count(c) of a one-character string c
Count(s, c) == Cardinality({i \in 1..Len(s) : s[i] = c})

\* str.rfind(c) and str.find(c): the 0-based index, or -1
RFind(s, c) ==
    IF \E i \in 1..Len(s) : s[i] = c
    THEN (CHOOSE i \in 1..Len(s) : s[i] = c /\ \A j \in (i+1)..Len(s) : s[j] # c) - 1
    ELSE -1

Find(s, c) ==
    IF \E i \in 1..Len(s) : s[i] = c
    THEN (CHOOSE i \in 1..Len(s) : s[i] = c /\ \A j \in 1..(i-1) : s[j] # c) - 1
    ELSE -1

\* s[i:] and s[:j] with Python's (0-based, possibly negative) bounds
SliceFrom(s, i) == SubSeq(s, i + 1, Len(s))
\* mutant: the slice keeps the character at index j (off by one)
SliceTo_OffByOne(s, j) ==
    IF j >= 0 THEN SubSeq(s, 1, IF j + 1 < Len(s) THEN j + 1 ELSE Len(s))
    ELSE SubSeq(s, 1, Len(s) + j)

SliceTo(s, j) ==
    IF j >= 0 THEN SubSeq(s, 1, IF j < Len(s) THEN j ELSE Len(s))
    ELSE SubSeq(s, 1, Len(s) + j)

\* whether pat occurs in s at (1-based) position i
MatchAt(s, i, pat) ==
    /\ i + Len(pat) - 1 <= Len(s)
    /\ \A j \in 1..Len(pat) : s[i + j - 1] = pat[j]

\* str.replace(old, new): every non-overlapping occurrence, left to right
RECURSIVE ReplaceFrom(_, _, _, _)
ReplaceFrom(s, i, old, new) ==
    IF i > Len(s) THEN <<>>
    ELSE IF MatchAt(s, i, old) THEN new \o ReplaceFrom(s, i + Len(old), old, new)
    ELSE <<s[i]>> \o ReplaceFrom(s, i + 1, old, new)

Replace(s, old, new) == ReplaceFrom(s, 1, old, new)

\* str.split(sep): the pieces between the non-overlapping occurrences of sep
RECURSIVE SplitFrom(_, _, _, _)
SplitFrom(s, i, sep, cur) ==
    IF i > Len(s) THEN <<cur>>
    ELSE IF MatchAt(s, i, sep) THEN <<cur>> \o SplitFrom(s, i + Len(sep), sep, <<>>)
    ELSE SplitFrom(s, i + 1, sep, Append(cur, s[i]))

Split(s, sep) == SplitFrom(s, 1, sep, <<>>)

IsDigit(c) == \E i \in 1..10 : Digits[i] = c
DigitVal(c) == (CHOOSE i \in 1..10 : Digits[i] = c) - 1

RECURSIVE IntOf(_)
IntOf(s) == IF s = <<>> THEN 0 ELSE 10 * IntOf(SubSeq(s, 1, Len(s) - 1)) + DigitVal(s[Len(s)])

RECURSIVE DecStr(_)
DecStr(n) == IF n < 10 THEN <<Digits[n + 1]>> ELSE DecStr(n \div 10) \o <<Digits[(n % 10) + 1]>>

\* float(unit_str) succeeds: an optional sign and digits.  The strings of
\* the model hold no ".", no "_" between digits and no letter next to a
\* digit, so the fraction, exponent, inf and nan forms do not arise; no
\* literal is zero.
IsFloat(s) ==
    LET body == IF s # <<>> /\ s[1] \in {"-", "+"} THEN Tail(s) ELSE s
    IN  body # <<>> /\ \A i \in 1..Len(body) : IsDigit(body[i])

FloatOf(s) ==
    IF s[1] = "-" THEN NumVal(-IntOf(Tail(s)))
    ELSE IF s[1] = "+" THEN NumVal(IntOf(Tail(s)))
    ELSE NumVal(IntOf(s))

\* re.match(r"\[(\d+)\]", s): "[", digits, "]" at the start of s
PlaceholderEnd(s) ==
    IF Len(s) >= 3 /\ s[1] = "[" /\ IsDigit(s[2])
    THEN LET e == CHOOSE i \in 3..(Len(s) + 1) :
                    /\ \A j \in 2..(i - 1) : IsDigit(s[j])
                    /\ (i > Len(s) \/ ~IsDigit(s[i]))
         IN  IF e <= Len(s) /\ s[e] = "]" THEN e ELSE 0
    ELSE 0


(***************************************************************************)
(* units_map (parser.py:85-92).  The keys are the strings of the table as  *)
(* written in the source.                                                  *)
(***************************************************************************)
s_hbar == <<"h","b","a","r">>
s_hartree == <<"h","a","r","t","r","e","e">>
s_angstrom == <<"a","n","g","s","t","r","o","m">>
s_au_t == <<"a","u","_","t">>
s_fs == <<"f","s">>
s_K == <<"K">>

units_map_keys == {s_hbar, s_hartree, s_angstrom, s_au_t, s_fs, s_K}

units_map ==
    [key \in units_map_keys |->
        IF key = s_hbar THEN BaseUnit("hbar")
        ELSE IF key = s_hartree THEN BaseUnit("hartree")
        ELSE IF key = s_angstrom THEN BaseUnit("angstrom")
        ELSE IF key = s_au_t THEN VDiv(BaseUnit("hbar"), BaseUnit("hartree"))
        ELSE IF key = s_fs THEN BaseUnit("femtosecond")
        ELSE BaseUnit("kelvin")]

(***************************************************************************)
(* resolve_unit (parser.py:95-161).  depth counts the nested calls; the    *)
(* interpreter raises RecursionError when the nesting exceeds its limit.    *)
(***************************************************************************)
FirstRaise(vals) ==
    vals[CHOOSE i \in 1..Len(vals) : IsRaise(vals[i]) /\ \A j \in 1..(i-1) : ~IsRaise(vals[j])]

AnyRaise(vals) == \E i \in 1..Len(vals) : IsRaise(vals[i])

\* mutant: the quotient is nested to the right, a/(b/c)
RECURSIVE DivFold_RightNested(_, _, _)
DivFold_RightNested(val, vals, i) ==
    IF i > Len(vals) \/ IsRaise(val) THEN val
    ELSE VDiv(val, DivFold_RightNested(vals[i], vals, i + 1))

\* val = vals[0]; for v in vals[1:]: val /= v           (lines 126-129)
RECURSIVE DivFold(_, _, _)
DivFold(val, vals, i) ==
    IF i > Len(vals) \/ IsRaise(val) THEN val
    ELSE DivFold(VDiv(val, vals[i]), vals, i + 1)

\* val = vals[0]; for v in reversed(vals[1:]): val = val**v   (lines 134-137)
RECURSIVE PowFold(_, _, _)
PowFold(val, vals, i) ==
    IF i < 2 \/ IsRaise(val) THEN val
    ELSE PowFold(VPow(val, vals[i]), vals, i - 1)

\* unit = 1; for v in vals: unit *= v                    (lines 150-153)
RECURSIVE MulFold(_, _, _)
MulFold(unit, vals, i) ==
    IF i > Len(vals) \/ IsRaise(unit) THEN unit
    ELSE MulFold(VMul(unit, vals[i]), vals, i + 1)

RECURSIVE resolve_unit(_, _, _)
RECURSIVE GroupLoop(_, _, _, _, _, _)

\* the body of "for n in range(n_groups)" (lines 115-120), from iteration n on
GroupLoop(unit_str, parts, open_p, n, n_groups, depth) ==
    IF n = n_groups THEN [unit_str |-> unit_str, parts |-> parts, exc |-> None]
    ELSE LET tail == SliceFrom(unit_str, open_p + 1)
             part == SliceTo(tail, Find(tail, ")"))
             val == resolve_unit(part, parts, depth + 1)
             rewritten == Replace(unit_str, <<"(">> \o part \o <<")">>,
                                  <<"[">> \o DecStr(n) \o <<"]">>)
         IN  IF IsRaise(val) THEN [unit_str |-> unit_str, parts |-> parts, exc |-> val]
             ELSE GroupLoop(rewritten, Append(parts, val), RFind(rewritten, "("),
                            n + 1, n_groups, depth)

resolve_unit(unit_str_in, parts, depth) ==
    LET unit_str == Normalize(unit_str_in)
        open_p == RFind(unit_str, "(")
        Operands(sep) == LET pieces == Split(unit_str, sep)
                         IN  [i \in 1..Len(pieces) |-> resolve_unit(pieces[i], parts, depth + 1)]
    IN  IF depth > RecursionLimit THEN Raise("RecursionError")
        ELSE IF unit_str \in DOMAIN units_map THEN units_map[unit_str]
        ELSE IF IsFloat(unit_str) THEN FloatOf(unit_str)
        ELSE IF unit_str = <<>> THEN One
        ELSE IF open_p > -1 THEN
            IF Count(unit_str, "(") # Count(unit_str, ")") THEN Str(unit_str)
            ELSE LET done == GroupLoop(unit_str, parts, open_p, 0,
                                       Count(unit_str, "("), depth)
                 IN  IF IsRaise(done.exc) THEN done.exc
                     ELSE resolve_unit(done.unit_str, done.parts, depth + 1)
        ELSE IF Len(Split(unit_str, <<"/">>)) > 1 THEN
            LET vals == Operands(<<"/">>)
            IN  IF AnyRaise(vals) THEN FirstRaise(vals) ELSE DivFold(vals[1], vals, 2)
        ELSE IF Len(Split(unit_str, <<"*", "*">>)) > 1 THEN
            LET vals == Operands(<<"*", "*">>)
            IN  IF AnyRaise(vals) THEN FirstRaise(vals) ELSE PowFold(vals[1], vals, Len(vals))
        ELSE IF Len(Split(unit_str, <<"^">>)) > 1 THEN
            LET vals == Operands(<<"^">>)
            IN  IF AnyRaise(vals) THEN FirstRaise(vals) ELSE PowFold(vals[1], vals, Len(vals))
        ELSE IF Len(Split(unit_str, <<"*">>)) > 1 THEN
            LET vals == Operands(<<"*">>)
            IN  IF AnyRaise(vals) THEN FirstRaise(vals) ELSE MulFold(One, vals, 1)
        ELSE IF Len(Split(unit_str, <<"-", "1">>)) = 2 THEN
            VDiv(One, resolve_unit(Split(unit_str, <<"-", "1">>)[1], parts, depth + 1))
        ELSE IF PlaceholderEnd(unit_str) > 0 THEN
            LET idx == IntOf(SubSeq(unit_str, 2, PlaceholderEnd(unit_str) - 1))
            IN  IF idx < Len(parts) THEN parts[idx + 1] ELSE Raise("IndexError")
        ELSE None


(***************************************************************************)
(* The calls of resolve_unit that the model makes.  An expression is a     *)
(* sequence of tokens; the argument of the call is their concatenation.    *)
(***************************************************************************)
t_bohr == <<"b","o","h","r">>
t_2 == <<"2">>
t_3 == <<"3">>
t_m1 == <<"-", "1">>
t_mul == <<"*">>
t_div == <<"/">>
t_pow == <<"*", "*">>
t_hat == <<"^">>
t_open == <<"(">>
t_close == <<")">>
t_ph0 == <<"[", "0", "]">>

RECURSIVE Flatten(_)
Flatten(toks) == IF toks = <<>> THEN <<>> ELSE Head(toks) \o Flatten(Tail(toks))

SeqsUpTo(S, n) == UNION {[1..m -> S] : m \in 0..n}

\* every token sequence of at most MaxTok tokens
FreeTokens == {s_hartree, s_fs, t_bohr, t_2, t_m1, t_mul, t_div, t_hat,
               t_open, t_close, t_ph0}
ParenFreeTokens == FreeTokens \ {t_open, t_close}
FreeInputs == SeqsUpTo(FreeTokens, MaxTok)

\* the keys of units_map in other letter cases and with embedded spaces
UpperStr(s) ==
    [i \in 1..Len(s) |->
        IF \E j \in 1..26 : LowerCase[j] = s[i]
        THEN UpperCase[CHOOSE j \in 1..26 : LowerCase[j] = s[i]]
        ELSE s[i]]
LowerStr(s) == [i \in 1..Len(s) |-> Lower(s[i])]
Spaced(s) == <<s[1], " ">> \o Tail(s) \o <<" ">>
CaseVariants(key) == {key, UpperStr(key), LowerStr(key), Spaced(key), Spaced(UpperStr(key))}
CaseInputs == {<<v>> : v \in UNION {CaseVariants(key) : key \in units_map_keys}}

\* operand op operand op operand
Operands3 == {s_hartree, s_fs, s_au_t, t_bohr, t_2, t_3, t_m1}
BinOps == {t_mul, t_div, t_pow, t_hat}
ChainInputs == {<<a, o1, b, o2, c>> : a \in Operands3, o1 \in BinOps, b \in Operands3,
                                      o2 \in BinOps, c \in Operands3}

\* a parenthesis-free expression in one pair of parentheses
ParenFreeInputs == SeqsUpTo(ParenFreeTokens, MaxTok)
WrapInputs == {<<t_open>> \o e \o <<t_close>> : e \in ParenFreeInputs}

\* several well-formed groups: (a)o(b), ((a)), (a o (b)), ((a) o b)
GroupOperands == {s_hartree, s_fs, t_bohr, t_2}
GroupInputs ==
    {<<t_open, a, t_close, o, t_open, b, t_close>> : a \in GroupOperands, o \in BinOps,
                                                      b \in GroupOperands}
    \cup {<<t_open, t_open, a, t_close, t_close>> : a \in GroupOperands}
    \cup {<<t_open, a, o, t_open, b, t_close, t_close>> : a \in GroupOperands, o \in BinOps,
                                                           b \in GroupOperands}
    \cup {<<t_open, t_open, a, t_close, o, b, t_close>> : a \in GroupOperands, o \in BinOps,
                                                           b \in GroupOperands}

Inputs == FreeInputs \cup CaseInputs \cup ChainInputs \cup WrapInputs \cup GroupInputs

VARIABLES
    expr,       \* the tokens of the unit expression of the call
    unit_pc,    \* "call": resolve_unit is about to run; "done": it has ended
    result,     \* the value returned, or the exception raised
    doc,                \* the document under parse: main output, input, side files
    \* the readers: mainfile is os.path.join(maindir, filename), kept as maindir,
    \* name (the characters of filename) and mainfile (which side file of the
    \* document the path is that of); frequency is _frequency
    traj_parser,        \* CP2KParser.traj_parser
    velocities_parser,  \* CP2KParser.velocities_parser
    cell_parser,        \* CP2KParser.cell_parser
    energy_parser,      \* CP2KParser.energy_parser
    lookup,             \* the last auxiliary lookup and what it returned
    run,                \* the archive under construction and the position in parse
    reader,             \* a TrajParser: its bound file, its cache, the reads it made
    call                \* a function under call: its name, arguments and return value

unit_vars == <<expr, unit_pc, result>>
frame_vars == <<doc, traj_parser, velocities_parser, cell_parser, energy_parser, lookup>>
call_vars == <<reader, call>>
vars ==
    <<expr, unit_pc, result, doc, traj_parser, velocities_parser, cell_parser,
      energy_parser, lookup, run, reader, call>>

\* a reader as __init__ and init_parser leave it (lines 206, 956-958, 1080-1081)
Unbound == [mainfile |-> "none", maindir |-> 0, name |-> <<>>, frequency |-> 1]
NoLookup == [op |-> "none", frame |-> 0, eff |-> 0, selecting |-> FALSE, result |-> None]
NoDoc == [method |-> "none"]
NoRun == [pc |-> "idle"]
NoReader == [mainfile |-> "none"]
NoCall == [op |-> "none"]

CallsIdle ==
    /\ reader = NoReader
    /\ call = NoCall

FramesIdle ==
    /\ doc = NoDoc
    /\ traj_parser = Unbound
    /\ velocities_parser = Unbound
    /\ cell_parser = Unbound
    /\ energy_parser = Unbound
    /\ lookup = NoLookup
    /\ run = NoRun

Init ==
    /\ expr \in Inputs
    /\ unit_pc = "call"
    /\ result = None
    /\ CallsIdle
    /\ FramesIdle

\* one top-level call resolve_unit(expr) with the default parts=[]
Resolve ==
    /\ unit_pc = "call"
    /\ result' = resolve_unit(Flatten(expr), <<>>, 0)
    /\ unit_pc' = "done"
    /\ UNCHANGED <<expr, frame_vars, run, call_vars>>

Next == Resolve

Spec == Init /\ [][Next]_vars


(***************************************************************************)
(* Properties of resolve_unit.                                             *)
(***************************************************************************)
Done == unit_pc = "done"

\* resolve_unit of one token sequence, called from outside
Resolved(toks) == resolve_unit(Flatten(toks), <<>>, 0)

\* the same value, or an exception on both sides
SameOutcome(x, y) == x = y \/ (IsRaise(x) /\ IsRaise(y))

\* the value of "x o y" under ordinary grouping
ApplyOp(o, x, y) ==
    IF o = t_mul THEN VMul(x, y)
    ELSE IF o = t_div THEN VDiv(x, y)
    ELSE VPow(x, y)

UnitNames == {s_hartree, s_fs, s_au_t}

\* C1: for all unit names a and b, resolve_unit("a*b^-1") is
\* resolve_unit("a") / resolve_unit("b").
C1_MulInverseIsQuotient ==
    \A a \in UnitNames, b \in UnitNames :
        (Done /\ expr = <<a, t_mul, b, t_hat, t_m1>>)
            => SameOutcome(result, VDiv(Resolved(<<a>>), Resolved(<<b>>)))

\* C2: resolve_unit never raises an exception: every expression that holds
\* an unknown unit token, and the placeholder string "[0]", returns a value.
C2_NeverRaises ==
    (Done /\ (expr = <<t_ph0>> \/ \E i \in 1..Len(expr) : expr[i] = t_bohr))
        => ~IsRaise(result)

\* C3: a chain of exponent operators is right-associative:
\* "a**b**c" and "a^b^c" are a ** (b ** c).
C3_PowRightAssociative ==
    \A a \in Operands3, b \in Operands3, c \in Operands3, o \in {t_pow, t_hat} :
        (Done /\ expr = <<a, o, b, o, c>>)
            => SameOutcome(result, VPow(Resolved(<<a>>),
                                        VPow(Resolved(<<b>>), Resolved(<<c>>))))

\* C4: every key of units_map, in any letter case and with embedded spaces,
\* resolves to the key's table value.
C4_KeysCaseInsensitive ==
    \A key \in units_map_keys :
        \A v \in CaseVariants(key) :
            (Done /\ expr = <<v>>) => result = units_map[key]

\* C5: resolve_unit terminates on every input: the recursion on the
\* rewritten string never exhausts the interpreter's recursion depth.
C5_Terminates == Done => result # Raise("RecursionError")

\* C6: when the numbers of "(" and ")" differ, resolve_unit returns the
\* (normalized) input string, whichever parenthesis is in surplus.
C6_MismatchReturnsString ==
    LET unit_str == Normalize(Flatten(expr))
    IN  (Done /\ Count(unit_str, "(") # Count(unit_str, ")")) => result = Str(unit_str)

\* C7: a well-formed expression with several parenthesized groups (nested,
\* side by side, textually identical) has the value of ordinary grouping.
C7_GroupsAsOrdinaryGrouping ==
    \A a \in GroupOperands, b \in GroupOperands, o \in BinOps :
        /\ (Done /\ expr \in {<<t_open, a, t_close, o, t_open, b, t_close>>,
                              <<t_open, a, o, t_open, b, t_close, t_close>>,
                              <<t_open, t_open, a, t_close, o, b, t_close>>})
              => SameOutcome(result, ApplyOp(o, Resolved(<<a>>), Resolved(<<b>>)))
        /\ (Done /\ expr = <<t_open, t_open, a, t_close, t_close>>)
              => SameOutcome(result, Resolved(<<a>>))

\* the expression is "(" e ")" with e free of parentheses
IsWrapped ==
    /\ Len(expr) >= 2
    /\ expr[1] = t_open
    /\ expr[Len(expr)] = t_close
    /\ \A i \in 2..(Len(expr) - 1) : expr[i] \notin {t_open, t_close}

\* C8: one pair of parentheses around a whole parenthesis-free expression e
\* does not change the outcome: resolve_unit("(e)") is resolve_unit("e").
C8_WrapIsNoOp ==
    (Done /\ IsWrapped) => result = Resolved(SubSeq(expr, 2, Len(expr) - 1))

C8_Witness ==
    /\ Done
    /\ expr = <<t_open, s_hartree, t_div, s_fs, t_close>>
    /\ result = VDiv(BaseUnit("hartree"), BaseUnit("femtosecond"))

\* C9: "/" binds loosest and is applied left to right: "a/b/c" is (a/b)/c,
\* "a/b*c" is a/(b*c) and "a*b/c" is (a*b)/c.
C9_DivLoosestLeftToRight ==
    \A a \in Operands3, b \in Operands3, c \in Operands3 :
        LET A == Resolved(<<a>>)
            B == Resolved(<<b>>)
            C == Resolved(<<c>>)
        IN  /\ (Done /\ expr = <<a, t_div, b, t_div, c>>) => result = VDiv(VDiv(A, B), C)
            /\ (Done /\ expr = <<a, t_div, b, t_mul, c>>) => result = VDiv(A, VMul(B, C))
            /\ (Done /\ expr = <<a, t_mul, b, t_div, c>>) => result = VDiv(VMul(A, B), C)

C9_Witness ==
    /\ Done
    /\ expr = <<s_hartree, t_div, s_fs, t_mul, t_2>>
    /\ result = VDiv(BaseUnit("hartree"), VMul(BaseUnit("femtosecond"), NumVal(2)))
    /\ result # VMul(VDiv(BaseUnit("hartree"), BaseUnit("femtosecond")), NumVal(2))


(***************************************************************************)
(* Part 2: the frame correlator of CP2KParser.                             *)
(*                                                                         *)
(* A document is what the main output, the input file and the side files   *)
(* say:                                                                    *)
(*   method         sampling_method (lines 2171-2182)                      *)
(*   ensemble       the ensemble_type of the MD settings and of every step *)
(*   coord_inline   FORCE_EVAL/SUBSYS/COORD is given in the input          *)
(*   coord_file_ok  the COORD_FILE_NAME file yields a frame                *)
(*   coordinates    print frequency of settings["md"]["coordinates"],      *)
(*                  0 when the entry is absent ("0 none")                  *)
(*   traj_ok        the trajectory output file can be read                 *)
(*   traj_iter      the trajectory file records "i = <n>" per frame        *)
(*   simulation_cell  print frequency of the cell file, 0 when absent      *)
(*   cell_file      a cell file name is configured                         *)
(*   lattice0       the lattice of frame 0 is in the output or the input   *)
(*                  (otherwise neither has a cell)                         *)
(*   step_start     STEP_START_VAL (lines 2291-2297)                       *)
(*   energies_set   settings["md"] has an "energies" entry                 *)
(*   energies       print frequency of that entry                          *)
(*   energy_ok      the MD energy file can be read                         *)
(*   maindir        the directory of the main output (lines 2271-2273)     *)
(*   filename       MOTION/PRINT/TRAJECTORY/FILENAME of the input, "" when *)
(*                  absent; the FORMAT is XYZ                              *)
(*   each           the step interval at which the program printed the     *)
(*                  trajectory file: the coordinates frequency of an MD    *)
(*                  run                                                    *)
(*   md_steps       the number of md_step blocks of the output             *)
(* A record of a side file is named by the frame it was printed for: the   *)
(* program prints every F-th step, F the configured print frequency.       *)
(***************************************************************************)
AllDocs ==
    [method : {"geometry_optimization", "molecular_dynamics"},
     ensemble : {"NVE", "REFTRAJ", "NPT_F"},
     coord_inline : BOOLEAN,
     coord_file_ok : BOOLEAN,
     coordinates : 0..MaxFreq,
     traj_ok : BOOLEAN,
     traj_iter : BOOLEAN,
     simulation_cell : 0..MaxFreq,
     cell_file : BOOLEAN,
     lattice0 : BOOLEAN,
     step_start : 1..2]

\* the MD energy file of the documents of the correlator: printed every step
EnergiesEveryStep ==
    [energies_set |-> TRUE, energies |-> 1, energy_ok |-> TRUE, maindir |-> 1,
     filename |-> <<>>, md_steps |-> MaxFrame]

\* GLOBAL/PROJECT_NAME of the input
s_project == <<"p", "r", "j">>
\* a file name the document gives verbatim: the name in an entry of the MD
\* settings, COORD_FILE_NAME
s_given == <<"f">>
s_pos_1_xyz == <<"-", "p", "o", "s", "-", "1", ".", "x", "y", "z">>
s_vel_1_xyz == <<"-", "v", "e", "l", "-", "1", ".", "x", "y", "z">>

\* _normalize_filename (lines 1138-1149); re.match(r"./", filename) holds when
\* any character but a newline is followed by "/"
normalize_filename(filename) ==
    IF Len(filename) >= 1 /\ filename[1] = "="
    THEN SliceFrom(filename, 1)
    ELSE IF Len(filename) >= 2 /\ filename[2] = "/"
    THEN filename
    ELSE IF filename # <<>>
    THEN s_project \o <<"-">> \o filename
    ELSE s_project

\* the MD settings (ensemble, print frequencies) are printed by an MD run only
Docs ==
    {d @@ [each |-> IF d.coordinates = 0 THEN 1 ELSE d.coordinates] @@ EnergiesEveryStep :
        d \in {e \in AllDocs :
                  e.method # "molecular_dynamics"
                      => e.ensemble = "NVE" /\ e.coordinates = 0 /\ e.simulation_cell = 0}}

Frames == -1..MaxFrame

Record(file, frame) == [k |-> "record", file |-> file, frame |-> frame]

\* the frequency at which the program printed the side file
Printed(freq) == IF freq = 0 THEN 1 ELSE freq

\* TrajParser.trajectory (lines 208-278) of the bound file: the list of
\* frames, or None when the file cannot be read
Trajectory(mainfile) ==
    IF mainfile = "coord"
    THEN IF doc.coord_file_ok THEN <<Record("coord", 0)>> ELSE None
    ELSE IF doc.traj_ok
         THEN [p \in 1..MaxRec |-> Record("output", (p - 1) * doc.each)]
         ELSE None

\* self.iter, set at line 275 from the "i = <n>" entries of an xyz file
Iter(mainfile) ==
    IF mainfile = "output" /\ doc.traj_ok /\ doc.traj_iter
    THEN [p \in 1..MaxRec |-> (p - 1) * doc.each]
    ELSE <<>>

\* mutant: the iteration list is ignored, the frame is taken by position
TrajParser_get_trajectory_ByPosition(parser, frame) ==
    LET trajectory == Trajectory(parser.mainfile)
    IN  IF trajectory = None THEN Raise("TypeError")
        ELSE IF frame \div parser.frequency < Len(trajectory)
             THEN trajectory[(frame \div parser.frequency) + 1]
             ELSE Raise("IndexError")

\* TrajParser.get_trajectory (lines 280-285); frame >= 0
TrajParser_get_trajectory(parser, frame) ==
    LET trajectory == Trajectory(parser.mainfile)
        iter == Iter(parser.mainfile)
    IN  IF trajectory = None THEN Raise("TypeError")
        ELSE IF iter # <<>> THEN
            IF \E p \in 1..Len(iter) : iter[p] = frame
            THEN trajectory[CHOOSE p \in 1..Len(iter) :
                                iter[p] = frame /\ \A q \in 1..(p - 1) : iter[q] # frame]
            ELSE Raise("ValueError")
        ELSE IF frame \div parser.frequency < Len(trajectory)
             THEN trajectory[(frame \div parser.frequency) + 1]
             ELSE Raise("IndexError")

\* get_ensemble_type (lines 1162-1174); md_step[frame - 1] follows Python's
\* indexing, and md_step is None when the output has no md_step block
get_ensemble_type(frame) ==
    IF doc.method # "molecular_dynamics" THEN None
    ELSE IF frame = 0 THEN Str(doc.ensemble)
    ELSE IF doc.md_steps = 0 THEN Raise("TypeError")
    ELSE IF frame - 1 < doc.md_steps /\ frame - 1 >= -doc.md_steps THEN Str(doc.ensemble)
    ELSE Raise("IndexError")

\* try: return <value> / except Exception: log, return None
Caught(v) == IF IsRaise(v) THEN None ELSE v

Returned(op, frame, eff, selecting, res) ==
    [op |-> op, frame |-> frame, eff |-> eff, selecting |-> selecting, result |-> res]

(***************************************************************************)
(* CP2KParser.get_trajectory (lines 1212-1284).                            *)
(***************************************************************************)
\* mutant: the file name of the settings entry is bound also at frequency 0
TrajConfigured_SettingsName(parser) ==
    IF parser.mainfile = "none"
    THEN [mainfile |-> "output", maindir |-> doc.maindir, name |-> s_given,
          frequency |-> IF doc.coordinates = 0 THEN 1 ELSE doc.coordinates]
    ELSE parser

\* lines 1248-1270: the reader as it is when the frame is selected
TrajConfigured(parser) ==
    IF parser.mainfile = "none"
    THEN [mainfile |-> "output", maindir |-> doc.maindir,
          name |-> IF doc.coordinates = 0
                   THEN normalize_filename(doc.filename) \o s_pos_1_xyz
                   ELSE s_given,
          frequency |-> IF doc.coordinates = 0 THEN 1 ELSE doc.coordinates]
    ELSE parser

\* lines 1272-1284, on the reader parser
TrajSelect(parser, frame) ==
    LET ens == get_ensemble_type(frame)
        eff == IF ens = Str("REFTRAJ") THEN frame - 1 ELSE frame
    IN  IF IsRaise(ens) THEN Returned("get_trajectory", frame, frame, TRUE, ens)
        ELSE IF eff < 0 THEN Returned("get_trajectory", frame, eff, TRUE, None)
        ELSE Returned("get_trajectory", frame, eff, TRUE,
                      Caught(TrajParser_get_trajectory(parser, eff)))

get_trajectory(frame) ==
    IF frame = 0 /\ doc.coord_inline
    THEN \* lines 1234-1246: the coordinates of the input file
         /\ lookup' = Returned("get_trajectory", frame, frame, FALSE, Record("input", 0))
         /\ UNCHANGED traj_parser
    ELSE IF frame = 0 /\ doc.coord_file_ok
    THEN \* lines 1221-1232: the frame of the coordinate file; the reader is reset
         /\ lookup' = Returned("get_trajectory", frame, frame, FALSE, Record("coord", 0))
         /\ traj_parser' = [traj_parser EXCEPT !.mainfile = "none", !.maindir = 0,
                                                !.name = <<>>]
    ELSE LET bound == IF frame = 0
                      THEN [traj_parser EXCEPT !.mainfile = "coord",
                                               !.maindir = doc.maindir,
                                               !.name = s_given]
                      ELSE traj_parser
             parser == TrajConfigured(bound)
         IN  /\ traj_parser' = parser
             /\ lookup' = TrajSelect(parser, frame)

GetTrajectory ==
    /\ \E frame \in Frames : get_trajectory(frame)
    /\ UNCHANGED <<unit_vars, call_vars, doc, velocities_parser, cell_parser, energy_parser, run>>


(***************************************************************************)
(* CP2KParser.get_velocities (lines 1179-1210).  The unit of the           *)
(* velocities is the default of line 1197, "bohr*au_t^-1".                 *)
(***************************************************************************)
DefaultVelocityUnit == <<t_bohr, t_mul, s_au_t, t_hat, t_m1>>

get_velocities(frame) ==
    IF doc.method = "molecular_dynamics"
    THEN \* lines 1180-1184: the output has a molecular_dynamics block
         /\ lookup' = Returned("get_velocities", frame, frame, FALSE, None)
         /\ UNCHANGED velocities_parser
    ELSE LET units == resolve_unit(Flatten(DefaultVelocityUnit), <<>>, 0)
             fresh == velocities_parser.mainfile = "none"
         IN  IF fresh /\ IsRaise(units)
             THEN \* line 1195 has bound the file, line 1196 raises
                  /\ velocities_parser' =
                        [velocities_parser EXCEPT !.mainfile = "velocities",
                                                  !.maindir = doc.maindir,
                                                  !.name = s_project \o s_vel_1_xyz]
                  /\ lookup' = Returned("get_velocities", frame, frame, FALSE, units)
             ELSE \* line 1201: get_ensemble_type returns None, None.lower() raises
                  /\ velocities_parser' =
                        IF fresh
                        THEN [mainfile |-> "velocities", maindir |-> doc.maindir,
                              name |-> s_project \o s_vel_1_xyz, frequency |-> 1]
                        ELSE velocities_parser
                  /\ lookup' = Returned("get_velocities", frame, frame, FALSE,
                                        Raise("AttributeError"))

\* parse_system asks for velocities in a molecular-dynamics run only (line 1690)
GetVelocities ==
    /\ doc.method = "molecular_dynamics"
    /\ \E frame \in Frames : get_velocities(frame)
    /\ UNCHANGED <<unit_vars, call_vars, doc, traj_parser, cell_parser, energy_parser, run>>

(***************************************************************************)
(* CP2KParser.get_lattice_vectors (lines 1286-1371).                       *)
(***************************************************************************)
\* get_lattice_vectors(0), lines 1289-1331: the lattice of the output or of
\* the input; None when neither has a cell (line 1299)
Lattice0 == IF doc.lattice0 THEN Record("lattice", 0) ELSE None

\* lines 1357-1371 on the bound reader.  cell_parser.units already is the
\* resolved unit (line 1345), so resolve_unit(units) at line 1369 fails on
\* units.lower() inside the try and the error is logged.
CellSelect(parser, frame) ==
    LET shifted == frame - (doc.step_start - 1)
        ens == get_ensemble_type(shifted)
        eff == IF ens = Str("REFTRAJ") THEN shifted - 1 ELSE shifted
    IN  IF IsRaise(ens) THEN Returned("get_lattice_vectors", frame, shifted, TRUE, ens)
        ELSE IF eff % parser.frequency # 0 \/ eff < 0
             THEN Returned("get_lattice_vectors", frame, eff, TRUE, None)
        ELSE Returned("get_lattice_vectors", frame, eff, TRUE,
                      Caught(Raise("AttributeError")))

get_lattice_vectors(frame) ==
    IF frame = 0
    THEN /\ lookup' = Returned("get_lattice_vectors", frame, frame, FALSE, Lattice0)
         /\ UNCHANGED cell_parser
    ELSE IF cell_parser.mainfile # "none"
    THEN /\ lookup' = CellSelect(cell_parser, frame)
         /\ UNCHANGED cell_parser
    ELSE IF doc.simulation_cell # 0 \/ doc.cell_file
    THEN \* lines 1333-1348: bind the reader to the cell file
         LET parser == [mainfile |-> "cell", maindir |-> doc.maindir, name |-> s_given,
                        frequency |-> Printed(doc.simulation_cell)]
         IN  /\ cell_parser' = parser
             /\ lookup' = CellSelect(parser, frame)
    ELSE \* lines 1349-1355: no cell file; the lattice of frame 0 unless NPT
         LET ens == IF doc.method = "molecular_dynamics"
                    THEN get_ensemble_type(frame) ELSE None
         IN  /\ lookup' = Returned("get_lattice_vectors", frame, frame, FALSE,
                              IF IsRaise(ens) THEN ens
                              ELSE IF ens.k = "str" /\ SubSeq(ens.s, 1, 3) = "NPT" THEN None
                              ELSE Lattice0)
             /\ UNCHANGED cell_parser

GetLatticeVectors ==
    /\ \E frame \in Frames : get_lattice_vectors(frame)
    /\ UNCHANGED <<unit_vars, call_vars, doc, traj_parser, velocities_parser, energy_parser, run>>

(***************************************************************************)
(* CP2KParser.get_md_output (lines 1373-1410).                             *)
(***************************************************************************)
EmptyDict == [k |-> "dict"]

\* energy_parser.data: one row per printed step, None when unreadable
EnergyData ==
    IF doc.energy_ok
    THEN [p \in 1..MaxRec |-> Record("energy", (p - 1) * Printed(doc.energies))]
    ELSE None

\* energy_parser._step (lines 1381-1385)
EnergyStep ==
    IF EnergyData = None THEN <<>>
    ELSE [p \in 1..Len(EnergyData) |-> EnergyData[p].frame]

\* lines 1390-1410 on the bound reader
EnergySelect(frame) ==
    LET ens == get_ensemble_type(frame)
        eff == IF ens = Str("REFTRAJ") THEN frame - 1 ELSE frame
    IN  IF IsRaise(ens) THEN Returned("get_md_output", frame, frame, TRUE, ens)
        ELSE IF eff < 0 THEN Returned("get_md_output", frame, eff, TRUE, EmptyDict)
        ELSE Returned("get_md_output", frame, eff, TRUE,
                      IF \E p \in 1..Len(EnergyStep) : EnergyStep[p] = eff
                      THEN EnergyData[CHOOSE p \in 1..Len(EnergyStep) : EnergyStep[p] = eff]
                      ELSE EmptyDict)

get_md_output(frame) ==
    IF energy_parser.mainfile # "none"
    THEN /\ lookup' = EnergySelect(frame)
         /\ UNCHANGED energy_parser
    ELSE IF ~doc.energies_set
    THEN \* line 1375: the default "0, none" splits into "0," and "none";
         \* int("0,") at line 1376 raises
         /\ lookup' = Returned("get_md_output", frame, frame, FALSE, Raise("ValueError"))
         /\ UNCHANGED energy_parser
    ELSE IF doc.energies = 0
    THEN /\ lookup' = Returned("get_md_output", frame, frame, FALSE, EmptyDict)
         /\ UNCHANGED energy_parser
    ELSE /\ energy_parser' = [mainfile |-> "energy", maindir |-> doc.maindir,
                               name |-> s_given, frequency |-> doc.energies]
         /\ lookup' = EnergySelect(frame)

\* parse_md_step runs in a molecular-dynamics run only (lines 1899-1902)
GetMdOutput ==
    /\ doc.method = "molecular_dynamics"
    /\ \E frame \in Frames : get_md_output(frame)
    /\ UNCHANGED <<unit_vars, call_vars, doc, traj_parser, velocities_parser, cell_parser, run>>

InitFrames ==
    /\ expr = <<>>
    /\ unit_pc = "idle"
    /\ result = None
    /\ CallsIdle
    /\ doc \in Docs
    /\ traj_parser = Unbound
    /\ velocities_parser = Unbound
    /\ cell_parser = Unbound
    /\ energy_parser = Unbound
    /\ lookup = NoLookup
    /\ run = NoRun

NextFrames == GetTrajectory \/ GetVelocities \/ GetLatticeVectors

SpecFrames == InitFrames /\ [][NextFrames]_vars

(***************************************************************************)
(* The MD energy lookups of a molecular-dynamics run, over every           *)
(* configuration of the "energies" entry.                                  *)
(***************************************************************************)
PlainRun ==
    [method |-> "molecular_dynamics", ensemble |-> "NVE", coord_inline |-> TRUE,
     coord_file_ok |-> FALSE, coordinates |-> 1, traj_ok |-> TRUE, traj_iter |-> TRUE,
     simulation_cell |-> 0, cell_file |-> FALSE, lattice0 |-> TRUE, step_start |-> 1,
     maindir |-> 1, filename |-> <<>>, each |-> 1, md_steps |-> MaxFrame]

EnergyDocs ==
    {[ensemble |-> ens, step_start |-> s] @@ e @@ PlainRun :
        ens \in {"NVE", "REFTRAJ", "NPT_F"},
        s \in 1..2,
        e \in [energies_set : BOOLEAN, energies : 0..MaxFreq, energy_ok : BOOLEAN]}

InitEnergy ==
    /\ expr = <<>>
    /\ unit_pc = "idle"
    /\ result = None
    /\ CallsIdle
    /\ doc \in EnergyDocs
    /\ traj_parser = Unbound
    /\ velocities_parser = Unbound
    /\ cell_parser = Unbound
    /\ energy_parser = Unbound
    /\ lookup = NoLookup
    /\ run = NoRun

NextEnergy == GetMdOutput

SpecEnergy == InitEnergy /\ [][NextEnergy]_vars

(***************************************************************************)
(* One CP2KParser instance parsing one document after the other            *)
(* (parse, lines 2270-2277, and init_parser, lines 1076-1093).             *)
(***************************************************************************)
FileNames == {<<>>, <<"t">>, <<"=", "t">>, <<".", "/", "t">>}

ReuseDocs(dir) ==
    {[maindir |-> dir, each |-> 1] @@ d @@ EnergiesEveryStep @@ PlainRun :
        d \in {e \in [method : {"geometry_optimization", "molecular_dynamics"},
                      coord_inline : BOOLEAN, cell_file : BOOLEAN, filename : FileNames,
                      coordinates : 0..1, simulation_cell : 0..1] :
                  /\ e.method # "molecular_dynamics"
                        => e.coordinates = 0 /\ e.simulation_cell = 0
                  \* the input's file name is read at frequency 0 only
                  /\ e.coordinates # 0 => e.filename = <<>>}}

\* init_parser resets the mainfile of the trajectory, velocities and energy
\* readers (lines 1080-1082); no line of it names cell_parser
Parse ==
    /\ doc.maindir < MaxDocs
    /\ doc' \in ReuseDocs(doc.maindir + 1)
    /\ traj_parser' = [traj_parser EXCEPT !.mainfile = "none", !.maindir = 0,
                                           !.name = <<>>]
    /\ velocities_parser' = [velocities_parser EXCEPT !.mainfile = "none", !.maindir = 0,
                                                       !.name = <<>>]
    /\ energy_parser' = [energy_parser EXCEPT !.mainfile = "none", !.maindir = 0,
                                               !.name = <<>>]
    /\ lookup' = NoLookup
    /\ UNCHANGED <<unit_vars, call_vars, cell_parser, run>>

\* get_velocities called on a document without a molecular_dynamics block
\* (the method is public; parse_system does not make this call)
CallGetVelocities ==
    /\ doc.method # "molecular_dynamics"
    /\ \E frame \in Frames : get_velocities(frame)
    /\ UNCHANGED <<unit_vars, call_vars, doc, traj_parser, cell_parser, energy_parser, run>>

InitReuse ==
    /\ expr = <<>>
    /\ unit_pc = "idle"
    /\ result = None
    /\ CallsIdle
    /\ doc \in ReuseDocs(1)
    /\ traj_parser = Unbound
    /\ velocities_parser = Unbound
    /\ cell_parser = Unbound
    /\ energy_parser = Unbound
    /\ lookup = NoLookup
    /\ run = NoRun

NextReuse ==
    \/ GetTrajectory
    \/ GetVelocities
    \/ CallGetVelocities
    \/ GetLatticeVectors
    \/ GetMdOutput
    \/ Parse

SpecReuse == InitReuse /\ [][NextReuse]_vars

(***************************************************************************)
(* Part 3: parse_configurations_quickstep (lines 1851-1992) and            *)
(* parse_workflow (lines 2184-2268) on one document.                       *)
(*                                                                         *)
(* Further fields of the document:                                         *)
(*   go, md, sp     the geometry_optimization, molecular_dynamics and      *)
(*                  single_point blocks of the output are present          *)
(*   opt_steps      the number of optimization_step blocks, with "step"    *)
(*                  1, 2, ...; md_steps likewise for the md_step blocks    *)
(*   atomic_coordinates  the output prints the atomic coordinates          *)
(* run is the position in the run and the archive:                         *)
(*   pc, n, frame   the step to take, the index of the calculation in      *)
(*                  work, the frame of the system in work                  *)
(*   calculation    sec_run.calculation; own and retried record what       *)
(*                  parse_system gave for the calculation's own frame and  *)
(*                  whether frame + 1 was tried                            *)
(*   system         sec_run.system                                         *)
(*   workflow       archive.workflow2                                      *)
(***************************************************************************)
\* a quantity that is not set (None)
Unset == -1

\* the loop of lines 1609-1632 over the time_calculation values of the
\* iterations; val + None at line 1630 raises TypeError
RECURSIVE ScfLoop(_, _, _)
ScfLoop(scf_iteration, iteration, time_initial) ==
    IF iteration = <<>> THEN [scf_iteration |-> scf_iteration, raised |-> FALSE]
    ELSE LET initial == IF scf_iteration # <<>>
                        THEN scf_iteration[Len(scf_iteration)].time_physical
                        ELSE time_initial
             val == Head(iteration)
         IN  IF val = Unset
             THEN ScfLoop(Append(scf_iteration,
                                 [time_calculation |-> Unset, time_physical |-> Unset]),
                          Tail(iteration), time_initial)
             ELSE IF initial = Unset
             THEN [scf_iteration |-> Append(scf_iteration,
                                            [time_calculation |-> val,
                                             time_physical |-> Unset]),
                   raised |-> TRUE]
             ELSE ScfLoop(Append(scf_iteration,
                                 [time_calculation |-> val,
                                  time_physical |-> val + initial]),
                          Tail(iteration), time_initial)

RECURSIVE SumTimes(_)
SumTimes(scf_iteration) ==
    IF scf_iteration = <<>> THEN 0
    ELSE Head(scf_iteration).time_calculation + SumTimes(Tail(scf_iteration))

\* parse_scc (lines 1577-1646): the calculations after parsing source, and
\* whether the call raised.  sum() at line 1634 raises on an unset value.
parse_scc(calculation, source) ==
    LET time_initial == IF calculation # <<>>
                        THEN calculation[Len(calculation)].time_physical
                        ELSE 0
        loop == ScfLoop(<<>>, source.iteration, time_initial)
        scf == loop.scf_iteration
        no_sum == \E i \in 1..Len(scf) : scf[i].time_calculation = Unset
        sec_scc == [frame |-> source.frame, scf_iteration |-> scf,
                    time_calculation |-> Unset, time_physical |-> Unset,
                    system_ref |-> 0, own |-> "pending", retried |-> FALSE]
    IN  IF loop.raised \/ no_sum
        THEN [calculation |-> Append(calculation, sec_scc), raised |-> TRUE]
        ELSE IF scf = <<>>
        THEN [calculation |-> Append(calculation, sec_scc), raised |-> FALSE]
        ELSE [calculation |->
                  Append(calculation,
                         [sec_scc EXCEPT !.time_calculation = SumTimes(scf),
                                         !.time_physical = scf[Len(scf)].time_physical]),
              raised |-> FALSE]

\* sampling_method (lines 2171-2182): the loop has no break, the last block
\* present wins
sampling_method(sp, go, md) ==
    IF md THEN "molecular_dynamics"
    ELSE IF go THEN "geometry_optimization"
    ELSE IF sp THEN "single_point"
    ELSE "none"

\* the list handed to parse_calculations (lines 1946-1989); an entry without
\* "step" has step Unset
Calculations ==
    LET block(present) == [present |-> present, step |-> Unset]
        steps(k) == [i \in 1..k |-> [present |-> TRUE, step |-> i]]
    IN  IF doc.go THEN <<block(TRUE)>> \o steps(doc.opt_steps) \o <<block(doc.sp)>>
        ELSE IF doc.md THEN <<block(doc.sp)>> \o steps(doc.md_steps)
        ELSE IF doc.sp THEN <<block(TRUE)>>
        ELSE <<>>

\* frame = calculation.get("step", n) (line 1896), n counted from 0
FrameOf(n) == IF Calculations[n].step = Unset THEN n - 1 ELSE Calculations[n].step

\* the next entry that is not None (lines 1883-1885), 0 when the list ends
NextEntry(n) ==
    LET later == {m \in (n + 1)..Len(Calculations) : Calculations[m].present}
    IN  IF later = {} THEN 0 ELSE CHOOSE m \in later : \A k \in later : m <= k

\* after parse_calculations: optimization_steps[-1] at line 1959 raises
\* IndexError when a final single point follows no optimization step
AfterLoop(r) ==
    IF doc.go /\ doc.sp /\ doc.opt_steps = 0
    THEN [r EXCEPT !.pc = "raised", !.at = "pdos"]
    ELSE [r EXCEPT !.pc = "workflow"]

\* the loop of line 1883 moves to entry m
Step(r, m) == IF m = 0 THEN AfterLoop(r) ELSE [r EXCEPT !.pc = "scc", !.n = m]

Raised(r) == [r EXCEPT !.pc = "raised", !.at = r.pc]

\* mutant: the calculation references the first system of the run
Link_FirstSystem(r) ==
    Step([r EXCEPT !.calculation[Len(r.calculation)].system_ref = 1], NextEntry(r.n))

\* lines 1919-1920: sec_scc.system_ref = sec_system, the system just appended
Link(r) ==
    Step([r EXCEPT !.calculation[Len(r.calculation)].system_ref = Len(r.system)],
         NextEntry(r.n))

\* lines 1897-1899: parse_scc on the entry; every calculation of these
\* documents has one SCF iteration
ParseScc ==
    /\ run.pc = "scc"
    /\ LET out == parse_scc(run.calculation,
                            [frame |-> FrameOf(run.n), iteration |-> <<1>>])
       IN  run' = [run EXCEPT !.calculation = out.calculation,
                              !.frame = FrameOf(run.n),
                              !.pc = IF out.raised THEN "raised"
                                     ELSE IF doc.method = "molecular_dynamics" THEN "md"
                                     ELSE "system",
                              !.at = IF out.raised THEN "scc" ELSE @]
    /\ UNCHANGED <<unit_vars, call_vars, frame_vars>>

\* lines 1900-1902 and parse_md_step (lines 1854-1880)
ParseMdStep ==
    /\ run.pc = "md"
    /\ get_md_output(run.frame)
    /\ run' = IF IsRaise(lookup'.result) THEN Raised(run)
              ELSE [run EXCEPT !.pc = "system"]
    /\ UNCHANGED <<unit_vars, call_vars, doc, traj_parser, velocities_parser, cell_parser>>

\* parse_system (lines 1648-1659) has looked up the frame: res is the
\* trajectory; own tells that frame is the calculation's own frame
SystemOf(r, res, frame, own) ==
    LET last == Len(r.calculation)
        seen == IF own
                THEN [r EXCEPT !.calculation[last].own =
                                    IF res.k = "record" THEN "system" ELSE "none"]
                ELSE r
    IN  IF IsRaise(res) THEN Raised(r)
        ELSE IF res = None
        THEN IF own /\ frame # 0 /\ r.n = Len(Calculations)
             THEN \* line 1912: the last entry of the list
                  [seen EXCEPT !.pc = "retry"]
             ELSE Step(seen, NextEntry(r.n))
        ELSE [seen EXCEPT !.system = Append(@, [frame |-> frame, trajectory |-> res]),
                          !.frame = frame,
                          !.pc = "lattice"]

\* lines 1904-1910: the system of the calculation's own frame
ParseSystem ==
    /\ run.pc = "system"
    /\ IF run.frame = 0 /\ doc.atomic_coordinates
       THEN /\ run' = SystemOf(run, Record("main", 0), 0, TRUE)
            /\ UNCHANGED <<traj_parser, lookup>>
       ELSE /\ get_trajectory(run.frame)
            /\ run' = SystemOf(run, lookup'.result, run.frame, TRUE)
    /\ UNCHANGED <<unit_vars, call_vars, doc, velocities_parser, cell_parser, energy_parser>>

\* lines 1912-1918: parse_system(frame + 1)
ParseSystemOfNextFrame ==
    /\ run.pc = "retry"
    /\ get_trajectory(run.frame + 1)
    /\ run' = SystemOf([run EXCEPT !.calculation[Len(run.calculation)].retried = TRUE],
                       lookup'.result, run.frame + 1, FALSE)
    /\ UNCHANGED <<unit_vars, call_vars, doc, velocities_parser, cell_parser, energy_parser>>

\* line 1666 of parse_system
ParseSystemLattice ==
    /\ run.pc = "lattice"
    /\ get_lattice_vectors(run.frame)
    /\ run' = IF IsRaise(lookup'.result) THEN Raised(run)
              ELSE IF doc.method = "molecular_dynamics"
              THEN [run EXCEPT !.pc = "velocities"]
              ELSE Link(run)
    /\ UNCHANGED <<unit_vars, call_vars, doc, traj_parser, velocities_parser, energy_parser>>

\* lines 1690-1693 of parse_system
ParseSystemVelocities ==
    /\ run.pc = "velocities"
    /\ get_velocities(run.frame)
    /\ run' = IF IsRaise(lookup'.result) THEN Raised(run) ELSE Link(run)
    /\ UNCHANGED <<unit_vars, call_vars, doc, traj_parser, cell_parser, energy_parser>>

\* parse_workflow (lines 2184-2268)
ParseWorkflow ==
    /\ run.pc = "workflow"
    /\ run' = [run EXCEPT !.pc = "done",
                          !.workflow =
                              IF doc.method = "geometry_optimization"
                              THEN "GeometryOptimization"
                              ELSE IF doc.method = "molecular_dynamics"
                              THEN "MolecularDynamics"
                              ELSE "SinglePoint"]
    /\ UNCHANGED <<unit_vars, call_vars, frame_vars>>

\* the documents: every combination of blocks; the trajectory file holds
\* every each-th step; an MD run prints the coordinates at that frequency
RunDocs ==
    {[method |-> sampling_method(d.sp, d.go, d.md),
      coordinates |-> IF d.md THEN d.each ELSE 0,
      coord_file_ok |-> FALSE, traj_ok |-> TRUE, simulation_cell |-> 0,
      cell_file |-> FALSE, lattice0 |-> TRUE, step_start |-> 1, energies |-> 1,
      energy_ok |-> TRUE, maindir |-> 1, filename |-> <<>>] @@ d :
        d \in {e \in [go : BOOLEAN, md : BOOLEAN, sp : BOOLEAN,
                      opt_steps : 0..MaxSteps, md_steps : 0..MaxSteps,
                      atomic_coordinates : BOOLEAN, coord_inline : BOOLEAN,
                      traj_iter : BOOLEAN, each : 1..2,
                      ensemble : {"NVE", "REFTRAJ"}, energies_set : BOOLEAN] :
                  /\ ~e.go => e.opt_steps = 0
                  /\ ~e.md => e.md_steps = 0 /\ e.ensemble = "NVE" /\ e.energies_set}}

InitRun ==
    /\ expr = <<>>
    /\ unit_pc = "idle"
    /\ result = None
    /\ CallsIdle
    /\ doc \in RunDocs
    /\ traj_parser = Unbound
    /\ velocities_parser = Unbound
    /\ cell_parser = Unbound
    /\ energy_parser = Unbound
    /\ lookup = NoLookup
    /\ run = Step([pc |-> "scc", at |-> "none", n |-> 0, frame |-> 0,
                   calculation |-> <<>>, system |-> <<>>, workflow |-> "none"],
                  NextEntry(0))

NextRun ==
    \/ ParseScc
    \/ ParseMdStep
    \/ ParseSystem
    \/ ParseSystemOfNextFrame
    \/ ParseSystemLattice
    \/ ParseSystemVelocities
    \/ ParseWorkflow

SpecRun == InitRun /\ [][NextRun]_vars

(***************************************************************************)
(* parse_scc over every sequence of up to MaxCalc sources, each with up to *)
(* MaxIter SCF iterations whose time_calculation is 1 or 2.  run.sources   *)
(* is the sequence, run.calculation is sec_run.calculation.                *)
(***************************************************************************)
Iterations == UNION {[1..k -> 1..2] : k \in 0..MaxIter}

Sources == UNION {[1..k -> Iterations] : k \in 1..MaxCalc}

\* one call of parse_scc, on the next source of the sequence
ParseSccOfNextSource ==
    /\ run.pc = "sources"
    /\ Len(run.calculation) < Len(run.sources)
    /\ LET n == Len(run.calculation) + 1
           out == parse_scc(run.calculation,
                            [frame |-> n - 1, iteration |-> run.sources[n]])
       IN  run' = [run EXCEPT !.calculation = out.calculation,
                              !.pc = IF out.raised THEN "raised" ELSE @,
                              !.at = IF out.raised THEN "scc" ELSE @]
    /\ UNCHANGED <<unit_vars, call_vars, frame_vars>>

InitScc ==
    /\ expr = <<>>
    /\ unit_pc = "idle"
    /\ result = None
    /\ CallsIdle
    /\ doc \in {d \in RunDocs : d.sp /\ ~d.go /\ ~d.md /\ d.each = 1 /\ d.ensemble = "NVE"
                                /\ d.energies_set /\ d.atomic_coordinates
                                /\ d.coord_inline /\ d.traj_iter}
    /\ traj_parser = Unbound
    /\ velocities_parser = Unbound
    /\ cell_parser = Unbound
    /\ energy_parser = Unbound
    /\ lookup = NoLookup
    /\ \E s \in Sources :
          run = [pc |-> "sources", at |-> "none", sources |-> s, calculation |-> <<>>]

NextScc == ParseSccOfNextSource

SpecScc == InitScc /\ [][NextScc]_vars

(***************************************************************************)
(* Properties of the correlator.                                           *)
(***************************************************************************)
\* the reader that served the last lookup
ReaderOf(op) ==
    IF op = "get_trajectory" THEN traj_parser
    ELSE IF op = "get_velocities" THEN velocities_parser
    ELSE IF op = "get_md_output" THEN energy_parser
    ELSE cell_parser

\* C10: a lookup whose effective frame is negative or no multiple of the
\* reader's print frequency returns None: it neither raises nor returns the
\* record of another frame.
C10_OffFrequencyIsNone ==
    (/\ lookup.op \in {"get_trajectory", "get_velocities", "get_lattice_vectors"}
     /\ lookup.selecting
     /\ \/ lookup.eff < 0
        \/ lookup.eff % ReaderOf(lookup.op).frequency # 0)
        => lookup.result = None

\* the frame a lookup starts from: get_lattice_vectors alone applies the
\* start step first (line 1357)
BaseFrame ==
    IF lookup.op = "get_lattice_vectors"
    THEN lookup.frame - (doc.step_start - 1)
    ELSE lookup.frame

\* C11: in a REFTRAJ run every auxiliary lookup for a later frame
\* (get_trajectory, get_velocities, get_lattice_vectors, get_md_output)
\* selects with the frame index decremented by one.
C11_RefTrajDecrements ==
    (/\ doc.method = "molecular_dynamics"
     /\ doc.ensemble = "REFTRAJ"
     /\ lookup.frame >= 1
     /\ lookup.selecting \/ lookup.op = "get_velocities"
     /\ ~IsRaise(lookup.result))
        => lookup.eff = BaseFrame - 1

\* C12: with STEP_START_VAL = s every auxiliary lookup for frame f selects
\* the record of frame f - (s - 1) (REFTRAJ runs, which shift once more,
\* set aside).
C12_StartStepShiftsAll ==
    (/\ lookup.selecting
     /\ doc.ensemble # "REFTRAJ"
     /\ lookup.frame >= 1
     /\ lookup.result.k = "record" \/ lookup.op = "get_lattice_vectors")
        => lookup.eff = lookup.frame - (doc.step_start - 1)

\* C13: after parse has started on a new document, no auxiliary reader is
\* bound to a file in the directory of an earlier document.
C13_NoReaderOfEarlierDocument ==
    \A parser \in {traj_parser, velocities_parser, cell_parser, energy_parser} :
        parser.mainfile # "none" => parser.maindir = doc.maindir

C15_NoEnergyFileIsEmpty ==
    (/\ lookup.op = "get_md_output"
     /\ ~doc.energies_set \/ doc.energies = 0 \/ ~doc.energy_ok)
        => lookup.result = EmptyDict

\* C17: when the trajectory file records an iteration list, the frame is
\* selected by iteration value: get_trajectory returns the frame at the
\* position of that value in the list, and None when the list does not hold
\* it (list [0, 2, 4]: frame 2 gives the second frame, frame 1 gives None).
C17_SelectsByIteration ==
    (/\ lookup.op = "get_trajectory"
     /\ lookup.selecting
     /\ lookup.eff >= 0
     /\ traj_parser.mainfile = "output"
     /\ Iter("output") # <<>>)
        => LET iter == Iter("output")
               at == {p \in 1..Len(iter) : iter[p] = lookup.eff}
           IN  /\ at # {} => \E p \in at : lookup.result = Trajectory("output")[p]
               /\ at = {} => lookup.result = None
               /\ (iter[2] = 2 /\ lookup.eff = 2)
                      => lookup.result = Trajectory("output")[2]
               /\ (iter[2] = 2 /\ lookup.eff = 1) => lookup.result = None

C17_Witness ==
    /\ Iter("output") = <<0, 2, 4>>
    /\ lookup.op = "get_trajectory"
    /\ lookup.eff = 2
    /\ lookup.result = Trajectory("output")[2]
    /\ lookup.result = Record("output", 2)

(***************************************************************************)
(* Properties of the run.                                                  *)
(***************************************************************************)
Completed == run.pc \in {"workflow", "done"}

\* the entries of the list that are not None
Present == {m \in 1..Len(Calculations) : Calculations[m].present}

\* C16: the system lookup is retried with frame + 1 for the last
\* calculation of the run when its own frame (a frame after the first)
\* gives no system, also when the trailing single-point entry is absent, and
\* for no other calculation; the retry raises no exception.
C16_RetryForLastCalculationOnly ==
    /\ Completed =>
          \A i \in 1..Len(run.calculation) :
              LET calc == run.calculation[i]
              IN  calc.frame >= 1 =>
                      (calc.retried <=> (i = Len(run.calculation) /\ calc.own = "none"))
    /\ run.pc = "raised" => run.at # "retry"

C20_WorkflowMatchesBranch ==
    run.pc = "done" =>
        run.workflow = IF doc.go THEN "GeometryOptimization"
                       ELSE IF doc.md THEN "MolecularDynamics"
                       ELSE "SinglePoint"

(***************************************************************************)
(* Properties of parse_scc.                                                *)
(***************************************************************************)
RECURSIVE SumSeq(_)
SumSeq(times) == IF times = <<>> THEN 0 ELSE Head(times) + SumSeq(Tail(times))

\* all SCF iteration times of the first n sources
RECURSIVE TotalTime(_)
TotalTime(n) == IF n = 0 THEN 0 ELSE TotalTime(n - 1) + SumSeq(run.sources[n])

\* C19: for every sequence of sources no call of parse_scc raises, also
\* after a calculation without SCF iteration; time_calculation of a
\* calculation is the sum of its iterations' times, time_physical of every
\* iteration and of the calculation is the running total over this and all
\* earlier calculations, and time_physical never decreases along the run.
C19_TimePhysicalIsRunningTotal ==
    /\ run.pc # "raised"
    /\ \A i \in 1..Len(run.calculation) :
          LET calc == run.calculation[i]
              times == run.sources[i]
          IN  times # <<>> =>
                  /\ calc.time_calculation = SumSeq(times)
                  /\ calc.time_physical = TotalTime(i)
                  /\ \A j \in 1..Len(times) :
                        calc.scf_iteration[j].time_physical =
                            TotalTime(i - 1) + SumSeq(SubSeq(times, 1, j))
                  /\ \A k \in 1..(i - 1) :
                        run.sources[k] # <<>> =>
                            run.calculation[k].time_physical <= calc.time_physical

(***************************************************************************)
(* Properties of the readers of the side files.                            *)
(***************************************************************************)
\* C23: after get_trajectory(0) has tried the COORD_FILE_NAME file the
\* trajectory reader is unbound again, whether or not the file gave a frame,
\* and a lookup of a later frame selects from the output trajectory file.
C23_CoordAttemptLeavesReaderUnbound ==
    /\ (lookup.op = "get_trajectory" /\ lookup.frame = 0 /\ ~doc.coord_inline) =>
           traj_parser.mainfile = "none"
    /\ (lookup.op = "get_trajectory" /\ lookup.frame >= 1 /\ lookup.selecting) =>
           traj_parser.mainfile = "output"

\* the record of frame f in a velocities file printed every step
VelocitiesRecord(f) == Record("velocities", f)

\* C29: in a molecular-dynamics run whose velocities file holds a record for
\* frame f >= 0, get_velocities(f) returns that record.
C29_VelocitiesOfFrame ==
    (lookup.op = "get_velocities" /\ doc.method = "molecular_dynamics"
                                  /\ lookup.frame >= 0) =>
        lookup.result = VelocitiesRecord(lookup.frame)

(***************************************************************************)
(* TrajParser.trajectory (lines 208-278), the lazily read list of frames.  *)
(* reader is one TrajParser:                                               *)
(*   mainfile   the bound file, NoFile when unbound                        *)
(*   format     self.format, "none" until the first access sets it         *)
(*   handler    self._file_handler, Unread until a result is stored        *)
(*   reads      how often the file was read since it was bound             *)
(*   accesses   how often .trajectory was asked for since it was bound     *)
(*   returned   what the last access returned                              *)
(* A file is its extension, whether the trajectory libraries can read it   *)
(* and the number of frames it holds.                                      *)
(***************************************************************************)
\* accesses of one binding
MaxReads == 4

Unread == [k |-> "unread"]
NoFile == [id |-> 0]

TrajFiles == [id : 1..MaxRec, ext : {"xyz", "pdb"}, readable : BOOLEAN]

FramesIn(file) == IF file.readable THEN file.id ELSE 0

Idle ==
    /\ expr = <<>>
    /\ unit_pc = "idle"
    /\ result = None
    /\ FramesIdle

\* assignment to mainfile: the cached state of the reader is reset,
\* self.format is not
Bind(file) ==
    /\ reader' = [reader EXCEPT !.mainfile = file, !.handler = Unread,
                                !.reads = 0, !.accesses = 0, !.returned = Unread]
    /\ UNCHANGED <<unit_vars, frame_vars, run, call>>

\* lines 209-275: the result of reading the bound file with self.format, None
\* when no reader gave one (line 263)
ReadTrajectory(file, format) ==
    IF format = "xyz"
    THEN \* lines 218-226: the list of the XYZ text parser, replaced by that
         \* of ase when ase reads the file
         [k |-> "list", n |-> FramesIn(file), of |-> file.id]
    ELSE IF file.readable
    THEN [k |-> "list", n |-> FramesIn(file), of |-> file.id]
    ELSE None

\* lines 263-276: what self._file_handler holds after the read
Stored(res, file) == IF res = None THEN Unread ELSE res

\* one evaluation of the property trajectory
AccessTrajectory ==
    /\ reader.mainfile # NoFile
    /\ reader.accesses < MaxReads
    /\ IF reader.handler # Unread
       THEN reader' = [reader EXCEPT !.accesses = @ + 1, !.returned = reader.handler]
       ELSE LET format == IF reader.format = "none" THEN reader.mainfile.ext
                          ELSE reader.format
                res == ReadTrajectory(reader.mainfile, format)
                kept == Stored(res, reader.mainfile)
            IN  reader' = [reader EXCEPT !.format = format,
                                         !.handler = kept,
                                         !.reads = @ + 1,
                                         !.accesses = @ + 1,
                                         !.returned = IF kept = Unread THEN None ELSE kept]
    /\ UNCHANGED <<unit_vars, frame_vars, run, call>>

InitLazy ==
    /\ Idle
    /\ call = NoCall
    /\ reader = [mainfile |-> NoFile, format |-> "none", handler |-> Unread,
                 reads |-> 0, accesses |-> 0, returned |-> Unread]

NextLazy ==
    \/ \E file \in TrajFiles : Bind(file)
    \/ AccessTrajectory

SpecLazy == InitLazy /\ [][NextLazy]_vars

\* C21: the result is computed at most once per binding: after the first
\* access the result is cached, also when the bound file could not be read,
\* and later accesses return it without reading the file again.
C21_ReadAtMostOncePerBinding ==
    /\ reader.reads <= 1
    /\ reader.accesses >= 1 =>
          /\ reader.reads = 1
          /\ reader.handler # Unread
          /\ reader.returned = reader.handler

(***************************************************************************)
(* get_pdos_files (lines 1924-1944).  call holds one call of a function:   *)
(* op its name, pc "call" before and "done" after it, its arguments, and   *)
(* ret the value returned.  A *.pdos file is the iteration step recorded   *)
(* in it, Unset when it records none.                                      *)
(***************************************************************************)
\* *.pdos files beside the main file
MaxPdos == 4

\* the steps a file records and the numbers of optimization steps asked for
PdosSteps == 0..2

\* the list without entry i, counted from 0: list.pop(i)
Pop(list, i) == SubSeq(list, 1, i) \o SubSeq(list, i + 2, Len(list))

\* the loop of lines 1937-1943: enumerate walks the list that pop shortens
RECURSIVE PdosLoop(_, _, _)
PdosLoop(pdos_files, i, n_optimization_steps) ==
    IF i >= Len(pdos_files) THEN pdos_files
    ELSE LET iter_step == IF pdos_files[i + 1] = Unset
                          THEN n_optimization_steps
                          ELSE pdos_files[i + 1]
         IN  IF iter_step # n_optimization_steps
             THEN PdosLoop(Pop(pdos_files, i), i + 1, n_optimization_steps)
             ELSE PdosLoop(pdos_files, i + 1, n_optimization_steps)

get_pdos_files(pdos_files, n_optimization_steps) ==
    PdosLoop(pdos_files, 0, n_optimization_steps)

PdosLists == UNION {[1..k -> PdosSteps \cup {Unset}] : k \in 0..MaxPdos}

GetPdosFiles ==
    /\ call.op = "get_pdos_files"
    /\ call.pc = "call"
    /\ call' = [call EXCEPT !.pc = "done",
                            !.ret = get_pdos_files(call.files, call.n)]
    /\ UNCHANGED <<unit_vars, frame_vars, run, reader>>

InitPdos ==
    /\ Idle
    /\ reader = NoReader
    /\ \E files \in PdosLists, n \in PdosSteps :
          call = [op |-> "get_pdos_files", pc |-> "call", files |-> files, n |-> n,
                  ret |-> <<>>]

NextPdos == GetPdosFiles

SpecPdos == InitPdos /\ [][NextPdos]_vars

\* C22: get_pdos_files returns exactly the files whose recorded step equals
\* the number of optimization steps (a file without a step counts as equal),
\* in the order of the listing.
C22_OnlyMatchingFiles ==
    call.pc = "done" =>
        LET Matches(step) == step = Unset \/ step = call.n
        IN  call.ret = SelectSeq(call.files, Matches)

(***************************************************************************)
(* InpValue and InpParser (lines 313-428): the CP2K input as a tree of     *)
(* sections.  A line of the input is one of                                *)
(*   [k |-> "open", name, value]   &NAME [value]; value 0: none given      *)
(*   [k |-> "close"]               &END ...                                *)
(*   [k |-> "kv", key, val]        KEY value                               *)
(* (blank lines, comments and @SET lines add nothing to the tree).  The    *)
(* InpValue objects are kept by identity: the section opened by line p is  *)
(* object p, the root InpValue("tree") is object 0; objs[id] is its _data, *)
(* a sequence of [key, val] in insertion order, where val is               *)
(*   Leaf(v)      a string, as the sequence of its words                   *)
(*   Sec(id)      the InpValue with that id                                *)
(*   List(items)  a python list of such values                             *)
(***************************************************************************)
\* lines of an input file
MaxLines == 5

Leaf(v) == [k |-> "str", v |-> v]
Sec(id) == [k |-> "sec", id |-> id]
List(items) == [k |-> "list", items |-> items]

InpLines ==
    {[k |-> "open", name |-> "A", value |-> 0], [k |-> "open", name |-> "B", value |-> 1],
     [k |-> "close"],
     [k |-> "kv", key |-> "K", val |-> 1], [k |-> "kv", key |-> "K", val |-> 2],
     [k |-> "kv", key |-> "k", val |-> 1]}

InpFiles == UNION {[1..n -> InpLines] : n \in 0..MaxLines}

\* position of key in _data, 0 when it is not a key
KeyAt(data, key) ==
    IF \E i \in 1..Len(data) : data[i].key = key
    THEN CHOOSE i \in 1..Len(data) : data[i].key = key
    ELSE 0

\* mutant: a repeated key replaces the value held
InpValue_add_Replace(data, key, val) ==
    LET i == KeyAt(data, key)
    IN  IF i = 0 THEN Append(data, [key |-> key, val |-> val])
        ELSE [data EXCEPT ![i].val = val]

\* InpValue.add (lines 323-332)
InpValue_add(data, key, val) ==
    LET i == KeyAt(data, key)
    IN  IF i = 0 THEN Append(data, [key |-> key, val |-> val])
        ELSE [data EXCEPT ![i].val =
                  IF @.k = "list" THEN List(Append(@.items, val)) ELSE List(<<@, val>>)]

\* override (lines 372-377); the keys of InpLines in upper case are "K"
override(key, val) ==
    IF key = "PROJECT" THEN [key |-> "PROJECT_NAME", val |-> Leaf(<<val>>)]
    ELSE IF key # "K" THEN [key |-> "DEFAULT_KEYWORD", val |-> Leaf(<<key, val>>)]
    ELSE [key |-> key, val |-> Leaf(<<val>>)]

\* the loop of lines 382-414 from line p on, and line 415; sections[-1],
\* sections.pop(-1) and sections[0] raise IndexError on the empty list
RECURSIVE TreeLoop(_, _, _, _)
TreeLoop(lines, p, objs, sections) ==
    LET raised == [objs |-> objs, sections |-> sections, ret |-> Raise("IndexError")]
        top == sections[Len(sections)]
    IN  IF p > Len(lines)
        THEN IF sections = <<>> THEN raised
             ELSE [objs |-> objs, sections |-> sections, ret |-> Sec(sections[1])]
        ELSE IF sections = <<>> THEN raised
        ELSE IF lines[p].k = "close"
        THEN TreeLoop(lines, p + 1, objs, SubSeq(sections, 1, Len(sections) - 1))
        ELSE IF lines[p].k = "open"
        THEN LET held == [objs EXCEPT ![top] = InpValue_add(@, lines[p].name, Sec(p))]
                 valued == IF lines[p].value # 0
                           THEN [held EXCEPT
                                    ![p] = InpValue_add(@, "VALUE", Leaf(<<lines[p].value>>))]
                           ELSE held
             IN  TreeLoop(lines, p + 1, valued, Append(sections, p))
        ELSE LET kv == override(lines[p].key, lines[p].val)
             IN  TreeLoop(lines, p + 1,
                          [objs EXCEPT ![top] = InpValue_add(@, kv.key, kv.val)],
                          sections)

\* InpParser.tree (lines 368-416) on a file not read before
tree(lines) == TreeLoop(lines, 1, [id \in 0..Len(lines) |-> <<>>], <<0>>)

Tree ==
    /\ call.op = "tree"
    /\ call.pc = "call"
    /\ LET out == tree(call.lines)
       IN  call' = [call EXCEPT !.pc = IF IsRaise(out.ret) THEN "raised" ELSE "tree",
                                !.objs = out.objs,
                                !.sections = out.sections,
                                !.ret = out.ret]
    /\ UNCHANGED <<unit_vars, frame_vars, run, reader>>

\* the keys asked for, as the sequence of their components
InpPaths ==
    {<<"A">>, <<"K">>, <<"A", "K">>, <<"K", "A">>, <<"A", "B">>, <<"B", "VALUE">>,
     <<"A", "A", "K">>}

\* the loop of lines 423-427 on the components left; source is a value of
\* tree.to_dict(): a section is a dict, a string and a list have no get
RECURSIVE ParseLoop(_, _, _)
ParseLoop(objs, source, path) ==
    IF path = <<>> THEN source
    ELSE IF source.k # "sec" THEN Raise("AttributeError")
    ELSE LET i == KeyAt(objs[source.id], Head(path))
         IN  IF i = 0 THEN None
             ELSE ParseLoop(objs, objs[source.id][i].val, Tail(path))

\* InpParser.parse (lines 418-428): the value stored in _results[key]
InpParser_parse(objs, key) == ParseLoop(objs, Sec(0), key)

Parse_key ==
    /\ call.op = "tree"
    /\ call.pc = "tree"
    /\ \E key \in InpPaths :
          call' = [call EXCEPT !.pc = "done", !.key = key,
                               !.val = InpParser_parse(call.objs, key)]
    /\ UNCHANGED <<unit_vars, frame_vars, run, reader>>

InitInp ==
    /\ Idle
    /\ reader = NoReader
    /\ \E lines \in InpFiles :
          call = [op |-> "tree", pc |-> "call", lines |-> lines, objs |-> <<>>,
                  sections |-> <<>>, ret |-> None, key |-> <<>>, val |-> None]

NextInp ==
    \/ Tree
    \/ Parse_key

SpecInp == InitInp /\ [][NextInp]_vars

(***************************************************************************)
(* Properties of the input tree.                                           *)
(***************************************************************************)
TreeBuilt == call.pc \in {"tree", "raised", "done"}

\* C24: for every input, also one with more &END lines than open sections,
\* tree raises nothing, the stack of open sections keeps the root at its
\* bottom and the root is returned.
C24_TreeNeverRaises ==
    TreeBuilt =>
        /\ call.pc # "raised"
        /\ call.sections # <<>>
        /\ call.sections[1] = 0
        /\ call.ret = Sec(0)

\* sections open minus sections closed in the first p lines
RECURSIVE Depth(_, _)
Depth(lines, p) ==
    IF p = 0 THEN 0
    ELSE Depth(lines, p - 1) + (IF lines[p].k = "open" THEN 1
                                ELSE IF lines[p].k = "close" THEN -1 ELSE 0)

Balanced(lines) ==
    /\ \A p \in 1..Len(lines) : Depth(lines, p) >= 0
    /\ Depth(lines, Len(lines)) = 0

\* the innermost section open at line p of a balanced input: the line that
\* opened it, 0 for the root
Owner(lines, p) ==
    LET open == {q \in 1..(p - 1) :
                    /\ lines[q].k = "open"
                    /\ \A r \in q..(p - 1) : Depth(lines, r) >= Depth(lines, q)}
    IN  IF open = {} THEN 0 ELSE CHOOSE q \in open : \A r \in open : r <= q

\* what the lines up to p put under key in section owner, in file order
RECURSIVE Put(_, _, _, _)
Put(lines, owner, key, p) ==
    IF p = 0 THEN <<>>
    ELSE LET line == lines[p]
             kv == override(line.key, line.val)
             before == Put(lines, owner, key, p - 1)
         IN  IF line.k = "open" /\ p = owner /\ key = "VALUE" /\ line.value # 0
             THEN Append(before, Leaf(<<line.value>>))
             ELSE IF Owner(lines, p) # owner THEN before
             ELSE IF line.k = "open" /\ line.name = key THEN Append(before, Sec(p))
             ELSE IF line.k = "kv" /\ kv.key = key THEN Append(before, kv.val)
             ELSE before

InpKeys == {"A", "B", "K", "VALUE", "DEFAULT_KEYWORD", "PROJECT_NAME"}

C26_UnresolvedPathIsNone ==
    call.pc = "done" =>
        LET first == KeyAt(call.objs[0], call.key[1])
        IN  /\ ~IsRaise(call.val)
            /\ first = 0 => call.val = None
            /\ (first # 0 /\ Len(call.key) > 1 /\ call.objs[0][first].val.k # "sec") =>
                   call.val = None

(***************************************************************************)
(* FHIAimsParser.frame_rate (fhiaims/parser.py, lines 1290-1310) and the   *)
(* three loops of parse_configurations that skip frames (lines 1937-1953). *)
(***************************************************************************)
\* sections in each of full_scf, geometry_optimization, molecular_dynamics
MaxSections == 3

\* self._cum_max_atoms (line 1274)
cum_max_atoms == 100000

\* len(structure.positions) of the outputs parsed
AtomCounts == {0, 1, 30000, 50000, 100000}

frame_rate(n_atoms, n_frames) ==
    IF n_atoms = 0 \/ n_frames = 0 THEN 1
    ELSE IF n_atoms * n_frames <= cum_max_atoms THEN 1
    ELSE (n_atoms * n_frames) \div cum_max_atoms

\* the sections of a list of length len that are parsed: n % frame_rate is 0
ParsedOf(len, rate) == Cardinality({n \in 0..(len - 1) : n % rate = 0})

ParseConfigurations ==
    /\ call.op = "parse_configurations"
    /\ call.pc = "call"
    /\ LET rate == frame_rate(call.n_atoms,
                              call.full_scf + call.geometry_optimization
                                            + call.molecular_dynamics)
       IN  call' = [call EXCEPT !.pc = "done",
                                !.frame_rate = rate,
                                !.parsed = ParsedOf(call.full_scf, rate)
                                           + ParsedOf(call.geometry_optimization, rate)
                                           + ParsedOf(call.molecular_dynamics, rate)]
    /\ UNCHANGED <<unit_vars, frame_vars, run, reader>>

InitRate ==
    /\ Idle
    /\ reader = NoReader
    /\ \E n_atoms \in AtomCounts, a \in 0..MaxSections, b \in 0..MaxSections,
          c \in 0..MaxSections :
          call = [op |-> "parse_configurations", pc |-> "call", n_atoms |-> n_atoms,
                  full_scf |-> a, geometry_optimization |-> b, molecular_dynamics |-> c,
                  frame_rate |-> 0, parsed |-> 0]

NextRate == ParseConfigurations

SpecRate == InitRate /\ [][NextRate]_vars

\* C27: frame_rate is at least 1, and with n_atoms at most _cum_max_atoms
\* the atoms of all parsed frames together are at most _cum_max_atoms.
C27_ParsedAtomsBounded ==
    (call.pc = "done" /\ call.n_atoms <= cum_max_atoms) =>
        /\ call.frame_rate >= 1
        /\ call.n_atoms * call.parsed <= cum_max_atoms

(***************************************************************************)
(* FHIAimsParser.get_mainfile_keys (fhiaims/parser.py, lines 2457-2490).   *)
(* The file is its length in characters, the place of its qpe_calc or      *)
(* sc_self_energy line (flag_at, counted from 0; NoFlag when it has none)  *)
(* and whether the flag of that line is a key of _gw_flag_map; the decoded *)
(* buffer is the first buflen characters of the file.                      *)
(***************************************************************************)
\* the file is at most this many blocks long
MaxBlocks == 3

\* len(self.out_parser._re_gw_flag) + 1 (line 2463, the pattern of line 224)
overlap == 47
\* the least block read (line 2464)
min_block == 4916
\* characters of a line "qpe_calc gw" with its line break
flag_len == 12

NoFlag == -1

FileLengths == {0, 40} \cup {b * 5000 : b \in 1..MaxBlocks}
BufferLengths == {0, 40, 4916, 5000}
FlagPlaces == {NoFlag, 10, 4900, 5100} \cup {b * 5000 - 100 : b \in 2..MaxBlocks}

\* re.search on the characters from..to of the file (to excluded)
Matches(c, from, to) ==
    /\ c.flag_at # NoFlag
    /\ from <= c.flag_at
    /\ c.flag_at + flag_len <= to

Min(a, b) == IF a < b THEN a ELSE b
Max(a, b) == IF a < b THEN b ELSE a

\* lines 2487-2490
KeysOf(c) == IF c.mapped THEN <<"GW", "GW_workflow">> ELSE TRUE

\* lines 2458-2466: the search of the buffer
SearchBuffer ==
    /\ call.op = "get_mainfile_keys"
    /\ call.pc = "call"
    /\ call' = IF Matches(call, 0, call.buflen)
               THEN [call EXCEPT !.pc = "done", !.ret = KeysOf(call)]
               ELSE [call EXCEPT !.pc = "loop", !.position = call.buflen]
    /\ UNCHANGED <<unit_vars, frame_vars, run, reader>>

\* lines 2468-2475: one round of the loop.  seek to a negative position
\* raises ValueError; match[1] on no match raises TypeError
ReadBlock ==
    /\ call.op = "get_mainfile_keys"
    /\ call.pc = "loop"
    /\ LET block == Max(call.buflen, min_block)
           from == call.position - overlap
           to == Min(call.position + block, call.filelen)
           text == to - from
           match == Matches(call, from, to)
       IN  call' = IF from < 0
                   THEN [call EXCEPT !.pc = "raised", !.ret = Raise("ValueError")]
                   ELSE IF match
                   THEN [call EXCEPT !.pc = "done", !.ret = KeysOf(call),
                                     !.position = @ + block]
                   ELSE IF text <= 0
                   THEN [call EXCEPT !.pc = "raised", !.ret = Raise("TypeError"),
                                     !.position = @ + block]
                   ELSE [call EXCEPT !.position = @ + block]
    /\ UNCHANGED <<unit_vars, frame_vars, run, reader>>

InitKeys ==
    /\ Idle
    /\ reader = NoReader
    /\ \E filelen \in FileLengths, buflen \in BufferLengths, flag_at \in FlagPlaces,
          mapped \in BOOLEAN :
          /\ buflen <= filelen
          /\ flag_at # NoFlag => flag_at + flag_len <= filelen
          /\ flag_at = NoFlag => ~mapped
          /\ call = [op |-> "get_mainfile_keys", pc |-> "call", filelen |-> filelen,
                     buflen |-> buflen, flag_at |-> flag_at, mapped |-> mapped,
                     position |-> 0, ret |-> None]

NextKeys ==
    \/ SearchBuffer
    \/ ReadBlock

SpecKeys == InitKeys /\ [][NextKeys]_vars

\* C28: get_mainfile_keys never raises: it returns ["GW", "GW_workflow"]
\* when the file has a flag of the GW flag map and True otherwise, also when
\* the file has no flag and when the buffer is empty.
C28_AlwaysReturnsKeys ==
    /\ call.pc # "raised"
    /\ call.pc = "done" =>
          call.ret = IF call.flag_at # NoFlag /\ call.mapped
                     THEN <<"GW", "GW_workflow">> ELSE TRUE

(***************************************************************************)
(* The basis sets of CrystalParser.parse (crystal/parser.py, lines         *)
(* 1124-1149).  An entry of the listing is the atomic number of its        *)
(* species and whether it has shells.                                      *)
(***************************************************************************)
\* entries of the basis-set listing
MaxBasis == 3

BasisEntries == [species : 1..2, shells : BOOLEAN]

BasisListings == UNION {[1..n -> BasisEntries] : n \in 0..MaxBasis}

\* atomic_number != covered_species (line 1131): an int and a set are never
\* equal in python
NotEqualToSet(atomic_number, covered_species) == TRUE

\* the loop of lines 1128-1136 from entry i on: the atom numbers of the
\* BasisSetAtomCentered sections appended
RECURSIVE BasisLoop(_, _, _, _)
BasisLoop(basis_sets, i, covered_species, section_basis_sets) ==
    IF i > Len(basis_sets) THEN section_basis_sets
    ELSE LET atomic_number == basis_sets[i].species
         IN  IF NotEqualToSet(atomic_number, covered_species) /\ basis_sets[i].shells
             THEN BasisLoop(basis_sets, i + 1, covered_species \cup {atomic_number},
                            Append(section_basis_sets, atomic_number))
             ELSE BasisLoop(basis_sets, i + 1, covered_species, section_basis_sets)

ParseBasisSets ==
    /\ call.op = "basis_sets"
    /\ call.pc = "call"
    /\ call' = [call EXCEPT !.pc = "done",
                            !.ret = BasisLoop(call.basis_sets, 1, {}, <<>>)]
    /\ UNCHANGED <<unit_vars, frame_vars, run, reader>>

InitBasis ==
    /\ Idle
    /\ reader = NoReader
    /\ \E basis_sets \in BasisListings :
          call = [op |-> "basis_sets", pc |-> "call", basis_sets |-> basis_sets,
                  ret |-> <<>>]

NextBasis == ParseBasisSets

SpecBasis == InitBasis /\ [][NextBasis]_vars

\* C30: every species has at most one BasisSetAtomCentered entry: of the
\* entries of the listing that name the same species only the first one
\* with shells adds a section.
C30_OneBasisSetPerSpecies ==
    call.pc = "done" =>
        LET First(i) == /\ call.basis_sets[i].shells
                        /\ \A j \in 1..(i - 1) :
                              ~(call.basis_sets[j].shells
                                /\ call.basis_sets[j].species = call.basis_sets[i].species)
            firsts == {i \in 1..Len(call.basis_sets) : First(i)}
        IN  /\ \A a, b \in 1..Len(call.ret) : call.ret[a] = call.ret[b] => a = b
            /\ Len(call.ret) = Cardinality(firsts)
            /\ \A i \in firsts :
                  call.ret[Cardinality({j \in firsts : j <= i})] = call.basis_sets[i].species

=============================================================================
